---- MODULE Spec2Model ----
(***************************************************************************)
(* The trip-planning pipeline of single_trip_agent.py: input validation,   *)
(* retrieval with a relevance threshold, prompt selection, the generation   *)
(* call and the reconciliation of the generated plan (link sanitization,    *)
(* validity gate, day/date realignment).                                    *)
(*                                                                          *)
(* Python values are tagged records: None, numbers, strings (sequences of   *)
(* tokens), lists and dicts.  An operation that can raise returns Ok(v) or   *)
(* Raise(e).                                                                *)
(***************************************************************************)
EXTENDS Integers, Sequences, FiniteSets, TLC

VARIABLES vector_db, pc, req, num_days, date_list, search_results,
          retrieved, prompt, http, full_trip_info, outcome,
          searchCalls, modelCalls, gem,
          store, folder, documents, built, embedCalls, loadCalls, buildCalls, startup,
          response, tasks, loop

\* the store path, the knowledge-base folder and the calls of rag_processor.py
indexVars == <<store, folder, documents, built, embedCalls, loadCalls, buildCalls, startup>>

\* the requests in flight, each with the locals of its own call, and the request the
\* server's event loop is running (0 when it runs none)
concVars == <<tasks, loop>>

vars == <<vector_db, pc, req, num_days, date_list, search_results,
          retrieved, prompt, http, full_trip_info, outcome,
          searchCalls, modelCalls, gem, indexVars, response, concVars>>

\* ------------------------------------------------------------------ bounds
\* number of consecutive calendar days request dates are drawn from
MaxSpan == 3
\* longest itinerary the generative model returns
MaxItin == 3
\* most entries a knowledge-base folder lists
MaxFiles == 2
\* most calls of create_vector_store_from_folder in one run
MaxBuilds == 3
\* requests in flight at once
MaxTasks == 2

\* ------------------------------------------------------- Python values
JNull == [t |-> "null"]
JNum(n) == [t |-> "num", n |-> n]
JStr(s) == [t |-> "str", s |-> s]
JList(xs) == [t |-> "list", xs |-> xs]
JObj(f) == [t |-> "obj", f |-> f]
EmptyDict == JObj([k \in {} |-> JNull])

Ok(v) == [ok |-> TRUE, v |-> v]
Raise(e) == [ok |-> FALSE, exc |-> e]

Range(s) == {s[i] : i \in 1..Len(s)}
Min(S) == CHOOSE x \in S : \A y \in S : x <= y

RECURSIVE SetToSeq(_)
SetToSeq(S) ==
    IF S = {} THEN <<>>
    ELSE LET x == CHOOSE y \in S : TRUE IN <<x>> \o SetToSeq(S \ {x})

\* bool(v)
Truthy(v) ==
    CASE v.t = "null" -> FALSE
      [] v.t = "num" -> v.n # 0
      [] v.t = "str" -> v.s # <<>>
      [] v.t = "list" -> v.xs # <<>>
      [] v.t = "obj" -> DOMAIN v.f # {}
      [] OTHER -> TRUE

\* key in c
Contains(key, c) ==
    CASE c.t = "obj" -> Ok(key \in DOMAIN c.f)
      [] c.t = "list" -> Ok(JStr(<<key>>) \in Range(c.xs))
      [] c.t = "str" -> Ok(key \in Range(c.s))
      [] OTHER -> Raise("TypeError")

\* for x in c
Items(c) ==
    CASE c.t = "list" -> Ok(c.xs)
      [] c.t = "obj" -> Ok([i \in 1..Cardinality(DOMAIN c.f) |->
                              JStr(<<SetToSeq(DOMAIN c.f)[i]>>)])
      [] c.t = "str" -> Ok([i \in 1..Len(c.s) |-> JStr(<<c.s[i]>>)])
      [] OTHER -> Raise("TypeError")

\* d[k] = v on a dict
DictSet(d, k, v) ==
    JObj([x \in (DOMAIN d.f) \cup {k} |-> IF x = k THEN v ELSE d.f[x]])

\* d.get(k, default)
DictGet(d, k, default) ==
    IF d.t # "obj" THEN Raise("AttributeError")
    ELSE IF k \in DOMAIN d.f THEN Ok(d.f[k]) ELSE Ok(default)

\* xs[:n] on a list
Slice(xs, n) ==
    LET stop == IF n >= 0 THEN (IF n < Len(xs) THEN n ELSE Len(xs))
                ELSE (IF Len(xs) + n > 0 THEN Len(xs) + n ELSE 0)
    IN SubSeq(xs, 1, stop)

\* ------------------------------------------------------------- calendar
IsLeap(y) == (y % 4 = 0) /\ ((y % 100 # 0) \/ (y % 400 = 0))
DaysInMonth(y, m) ==
    CASE m \in {1, 3, 5, 7, 8, 10, 12} -> 31
      [] m \in {4, 6, 9, 11} -> 30
      [] OTHER -> IF IsLeap(y) THEN 29 ELSE 28
RECURSIVE DaysBeforeMonth(_, _)
DaysBeforeMonth(y, m) ==
    IF m = 1 THEN 0 ELSE DaysBeforeMonth(y, m - 1) + DaysInMonth(y, m - 1)
DaysBeforeYear(y) ==
    (y - 1) * 365 + ((y - 1) \div 4) - ((y - 1) \div 100) + ((y - 1) \div 400)
\* date.toordinal()
ToOrdinal(dt) == DaysBeforeYear(dt.y) + DaysBeforeMonth(dt.y, dt.m) + dt.d
DaysInYear(y) == IF IsLeap(y) THEN 366 ELSE 365
RECURSIVE YearOf(_, _)
YearOf(n, y) ==
    IF n <= DaysBeforeYear(y) THEN YearOf(n, y - 1)
    ELSE IF n > DaysBeforeYear(y) + DaysInYear(y) THEN YearOf(n, y + 1)
    ELSE y
RECURSIVE MonthOf(_, _, _)
MonthOf(n, y, m) ==
    IF n > DaysBeforeYear(y) + DaysBeforeMonth(y, m) + DaysInMonth(y, m)
    THEN MonthOf(n, y, m + 1) ELSE m
\* date.fromordinal(n)
FromOrdinal(n) ==
    LET y == YearOf(n, (n \div 366) + 1)
        m == MonthOf(n, y, 1)
    IN [y |-> y, m |-> m, d |-> n - DaysBeforeYear(y) - DaysBeforeMonth(y, m)]

\* a date string as the caller writes it: form names the layout of y, m, d
DateStr(form, y, m, d) == [t |-> "date_str", form |-> form, y |-> y, m |-> m, d |-> d]

\* a slip in the parser: any day number up to 31 is taken, whatever the month
strptime_lenient(s) ==
    IF s.t \notin {"str", "date_str"} THEN Raise("TypeError")
    ELSE IF /\ s.t = "date_str"
            /\ s.form = "%Y-%m-%d"
            /\ s.y \in 1..9999
            /\ s.m \in 1..12
            /\ s.d \in 1..31
         THEN Ok([y |-> s.y, m |-> s.m, d |-> s.d])
         ELSE Raise("ValueError")

\* datetime.strptime(s, "%Y-%m-%d")
strptime(s) ==
    IF s.t \notin {"str", "date_str"} THEN Raise("TypeError")
    ELSE IF /\ s.t = "date_str"
            /\ s.form = "%Y-%m-%d"
            /\ s.y \in 1..9999
            /\ s.m \in 1..12
            /\ s.d \in 1..DaysInMonth(s.y, s.m)
         THEN Ok([y |-> s.y, m |-> s.m, d |-> s.d])
         ELSE Raise("ValueError")

MonthAbbr == <<"Jan", "Feb", "Mar", "Apr", "May", "Jun",
               "Jul", "Aug", "Sep", "Oct", "Nov", "Dec">>
TwoDigits(n) == IF n < 10 THEN "0" \o ToString(n) ELSE ToString(n)
\* dt.strftime("%b %d, %Y")
strftime(dt) == JStr(<<MonthAbbr[dt.m], " ", TwoDigits(dt.d), ", ", ToString(dt.y)>>)

\* start + timedelta(days=i)
AddDays(dt, i) == FromOrdinal(ToOrdinal(dt) + i)

\* ------------------------------------------------------------ retrieval
\* k of db.similarity_search_with_relevance_scores(query, k=3)
TopK == 3
\* RELEVANCE_THRESHOLD = 0.4, scores counted in hundredths
RELEVANCE_THRESHOLD == 40
\* relevance scores the backend may report, in hundredths
Scores == {39, 40, 41}

\* a stored chunk; load_documents_from_folder tags every record with its filename
Chunk(text, filename) == [page_content |-> <<text>>, metadata |-> [source |-> filename]]
IndexChunks == {Chunk("temples", "kyoto.pdf"), Chunk("gardens", "kyoto.pdf"),
                Chunk("ramen", "food.txt")}
None == JNull
LoadedIndex == [t |-> "faiss", chunks |-> IndexChunks]

\* the ranked answers the backend can give: at most TopK distinct chunks,
\* as many as the index holds, by non-increasing relevance
SearchOutcomes(db) ==
    LET n == IF Cardinality(db.chunks) < TopK THEN Cardinality(db.chunks) ELSE TopK
    IN {r \in [1..n -> [doc : db.chunks, score : Scores]] :
          /\ \A i, j \in 1..n : i < j => r[i].score >= r[j].score
          /\ \A i, j \in 1..n : i # j => r[i].doc # r[j].doc}

ContextSeparator == "\n\n---\n\n"

\* a slip in the comparison: a score equal to the threshold passes
RelevantInclusive(score) == score >= RELEVANCE_THRESHOLD

\* score > RELEVANCE_THRESHOLD
Relevant(score) == score > RELEVANCE_THRESHOLD

\* the loop over retrieved_docs_with_scores: context and the set of sources
RECURSIVE ScanResults(_, _, _, _)
ScanResults(results, i, context, sources) ==
    IF i > Len(results) THEN Ok([context |-> context, sources |-> sources])
    ELSE IF Relevant(results[i].score)
         THEN IF "source" \in DOMAIN results[i].doc.metadata
              THEN ScanResults(results, i + 1,
                               context \o results[i].doc.page_content \o <<ContextSeparator>>,
                               sources \cup {results[i].doc.metadata["source"]})
              ELSE Raise("KeyError")
         ELSE ScanResults(results, i + 1, context, sources)

\* list(sources): the orders a set can be listed in
Listings(S) == {q \in [1..Cardinality(S) -> S] : \A x \in S : \E i \in DOMAIN q : q[i] = x}

\* a slip in the guard: a missing index is reported as a fault
IndexUnavailableFatal == Raise("RuntimeError")

\* if not db: return "", []
IndexUnavailable == Ok([context |-> <<>>, sources |-> {}])

\* a slip in the bookkeeping: the source of every ranked result is reported
get_context_all_sources(results) ==
    ScanResults(results, 1, <<>>, {results[i].doc.metadata["source"] : i \in 1..Len(results)})

\* get_context_with_sources(query, db) once the backend has answered
get_context_with_sources(results) == ScanResults(results, 1, <<>>, {})

\* ------------------------------------------------------- prompt selection
\* sep.join(xs), each x a sequence of tokens
RECURSIVE Join(_, _)
Join(sep, xs) ==
    IF Len(xs) = 0 THEN <<>>
    ELSE IF Len(xs) = 1 THEN xs[1]
    ELSE xs[1] \o <<sep>> \o Join(sep, Tail(xs))

NotInPrompt == [t |-> "absent"]

\* a slip in the test: len(...) >= 0 holds of every context and source list
UseContextAlways(retrieved_context, retrieved_sources) ==
    Len(retrieved_context) >= 0 /\ Len(retrieved_sources) >= 0

\* if retrieved_context and retrieved_sources
UseContext(retrieved_context, retrieved_sources) ==
    retrieved_context # <<>> /\ retrieved_sources # <<>>

\* a slip in the listing: only the first retrieved source is written into the prompt
ComposePromptFirstSource(destination, preferences, dates, retrieved_context, retrieved_sources) ==
    IF UseContext(retrieved_context, retrieved_sources)
    THEN [template |-> "rag",
          context |-> JStr(retrieved_context),
          source_filenames |-> JStr(<<retrieved_sources[1]>>),
          sources_rule |-> "only the listed filenames",
          destination |-> NotInPrompt,
          dates |-> NotInPrompt,
          preferences |-> NotInPrompt]
    ELSE [template |-> "general",
          context |-> NotInPrompt,
          source_filenames |-> NotInPrompt,
          sources_rule |-> "empty array",
          destination |-> destination,
          dates |-> JStr(Join(", ", [i \in 1..Len(dates) |-> dates[i].s])),
          preferences |-> IF Truthy(preferences) THEN preferences ELSE JStr(<<"any">>)]

\* the prompt as the template used and the values interpolated into it
ComposePrompt(destination, preferences, dates, retrieved_context, retrieved_sources) ==
    IF UseContext(retrieved_context, retrieved_sources)
    THEN [template |-> "rag",
          context |-> JStr(retrieved_context),
          source_filenames |-> JStr(Join(", ", [i \in 1..Len(retrieved_sources) |->
                                                      <<retrieved_sources[i]>>])),
          sources_rule |-> "only the listed filenames",
          destination |-> NotInPrompt,
          dates |-> NotInPrompt,
          preferences |-> NotInPrompt]
    ELSE [template |-> "general",
          context |-> NotInPrompt,
          source_filenames |-> NotInPrompt,
          sources_rule |-> "empty array",
          destination |-> destination,
          dates |-> JStr(Join(", ", [i \in 1..Len(dates) |-> dates[i].s])),
          preferences |-> IF Truthy(preferences) THEN preferences ELSE JStr(<<"any">>)]

\* ------------------------------------------------------- generation call
ErrorDict(msg) == JObj([error |-> JStr(msg)])

\* a string holding the JSON text of doc
JsonText(doc) == [t |-> "json_text", doc |-> doc]

\* json.loads(text)
json_loads(text) ==
    CASE text.t = "json_text" -> Ok(text.doc)
      [] text.t = "str" -> Raise("JSONDecodeError")
      [] OTHER -> Raise("TypeError")

\* c[0]
Index0(c) ==
    CASE c.t = "list" -> IF c.xs = <<>> THEN Raise("IndexError") ELSE Ok(c.xs[1])
      [] c.t = "str" -> IF c.s = <<>> THEN Raise("IndexError") ELSE Ok(JStr(<<c.s[1]>>))
      [] c.t = "obj" -> Raise("KeyError")
      [] OTHER -> Raise("TypeError")

\* requests.post(..., timeout=300), raise_for_status() and response.json()
Transport(h) ==
    CASE h.kind = "exception" -> Raise(h.exc)
      [] h.status >= 400 -> Raise("HTTPError")
      [] h.body.t = "not_json" -> Raise(h.body.exc)
      [] OTHER -> Ok(h.body)

RequestExceptions == {"ConnectionError", "Timeout", "HTTPError", "requests.JSONDecodeError"}

\* parts[0].get("text", "") of result["candidates"][0]
TextContent(result) ==
    LET c0 == Index0(result.f["candidates"]) IN
    IF ~c0.ok THEN c0 ELSE
    LET content == DictGet(c0.v, "content", EmptyDict) IN
    IF ~content.ok THEN content ELSE
    LET parts == DictGet(content.v, "parts", JList(<<EmptyDict>>)) IN
    IF ~parts.ok THEN parts ELSE
    LET p0 == Index0(parts.v) IN
    IF ~p0.ok THEN p0 ELSE DictGet(p0.v, "text", JStr(<<>>))

\* the try block of call_gemini_api
GeminiTry(response_schema, h) ==
    LET result == Transport(h) IN
    IF ~result.ok THEN result ELSE
    LET cands == DictGet(result.v, "candidates", JNull) IN
    IF ~cands.ok THEN cands ELSE
    IF Truthy(cands.v)
    THEN LET text_content == TextContent(result.v) IN
         IF ~text_content.ok THEN text_content
         ELSE IF response_schema
              THEN LET parsed == json_loads(text_content.v) IN
                   IF parsed.ok THEN parsed
                   ELSE IF parsed.exc = "JSONDecodeError"
                        THEN Ok(ErrorDict(<<"Failed to parse JSON response from AI.">>))
                        ELSE parsed
              ELSE text_content
    ELSE Ok(ErrorDict(<<"No content found in the AI response.">>))

\* call_gemini_api(prompt, response_schema) given what the HTTP exchange does
call_gemini_api(response_schema, h) ==
    LET r == GeminiTry(response_schema, h) IN
    IF r.ok THEN r.v
    ELSE IF r.exc \in RequestExceptions
         THEN ErrorDict(<<"Could not retrieve information from AI. Details: ", r.exc>>)
         ELSE ErrorDict(<<"An unexpected error occurred. Details: ", r.exc>>)

\* ------------------------------------------------------ link sanitization
Schemes == {"http://", "https://"}
NoNewline(url, a, b) == \A x \in a..b : url[x] # "\n"
\* positions of a ")" that can close a link whose "]" is at j
Closes(url, j) == {k \in (j + 3)..Len(url) : url[k] = ")" /\ NoNewline(url, j + 3, k - 1)}
\* positions of a "](scheme" that follows a "[" at i on the same line
Mids(url, i) ==
    {j \in (i + 1)..(Len(url) - 2) :
        /\ url[j] = "]"
        /\ url[j + 1] = "("
        /\ url[j + 2] \in Schemes
        /\ NoNewline(url, i + 1, j - 1)
        /\ Closes(url, j) # {}}
Starts(url) == {i \in 1..Len(url) : url[i] = "[" /\ Mids(url, i) # {}}

\* a slip in the group: the whole match, wrapper included, is returned
sanitize_map_link_whole_match(url) ==
    IF Starts(url) = {} THEN url
    ELSE LET i == Min(Starts(url))
             j == Min(Mids(url, i))
             k == Min(Closes(url, j))
         IN SubSeq(url, i, k)

\* re.search(r'\[.*?\]\((https?://.*?)\)', url): the leftmost match, each .*? as short
\* as it can be; group(1) when there is one, the url itself otherwise
sanitize_map_link(url) ==
    IF Starts(url) = {} THEN url
    ELSE LET i == Min(Starts(url))
             j == Min(Mids(url, i))
             k == Min(Closes(url, j))
         IN SubSeq(url, j + 2, k - 1)

\* a slip in the loop body: the item is replaced by a dict holding only its link
SanitizeItemLinkOnly(item) ==
    LET c == Contains("map_link", item) IN
    IF ~c.ok THEN c
    ELSE IF ~c.v THEN Ok(item)
    ELSE IF item.t # "obj" THEN Raise("TypeError")
    ELSE IF item.f["map_link"].t # "str" THEN Raise("TypeError")
    ELSE Ok(JObj([map_link |-> JStr(sanitize_map_link(item.f["map_link"].s))]))

\* if "map_link" in item: item["map_link"] = sanitize_map_link(item["map_link"])
SanitizeItem(item) ==
    LET c == Contains("map_link", item) IN
    IF ~c.ok THEN c
    ELSE IF ~c.v THEN Ok(item)
    ELSE IF item.t # "obj" THEN Raise("TypeError")
    ELSE IF item.f["map_link"].t # "str" THEN Raise("TypeError")
    ELSE Ok(DictSet(item, "map_link", JStr(sanitize_map_link(item.f["map_link"].s))))

\* the elements a for loop over c visits (none when c cannot be iterated)
Visited(c) == IF Items(c).ok THEN Range(Items(c).v) ELSE {}

\* for x in c: body[x], the body updating x in place; the first exception ends the loop
ForEach(c, body) ==
    LET it == Items(c) IN
    IF ~it.ok THEN it ELSE
    LET rs == [i \in 1..Len(it.v) |-> body[it.v[i]]]
        bad == {i \in 1..Len(it.v) : ~rs[i].ok}
    IN IF bad # {} THEN Raise(rs[Min(bad)].exc)
       ELSE IF c.t = "list" THEN Ok(JList([i \in 1..Len(it.v) |-> rs[i].v]))
       ELSE Ok(c)

\* if section in full_trip_info: for item in full_trip_info[section]: ...
SanitizeSection(info, section) ==
    LET c == Contains(section, info) IN
    IF ~c.ok THEN c
    ELSE IF ~c.v THEN Ok(info)
    ELSE IF info.t # "obj" THEN Raise("TypeError")
    ELSE LET r == ForEach(info.f[section], [item \in Visited(info.f[section]) |-> SanitizeItem(item)]) IN
         IF ~r.ok THEN r ELSE Ok(DictSet(info, section, r.v))

\* for activity in day_plan.get("activities", []): ...
SanitizeDayPlan(day_plan) ==
    LET acts == DictGet(day_plan, "activities", JList(<<>>)) IN
    IF ~acts.ok THEN acts ELSE
    LET r == ForEach(acts.v, [activity \in Visited(acts.v) |-> SanitizeItem(activity)]) IN
    IF ~r.ok THEN r
    ELSE IF "activities" \in DOMAIN day_plan.f
         THEN Ok(DictSet(day_plan, "activities", r.v))
         ELSE Ok(day_plan)

\* if "itinerary" in full_trip_info: for day_plan in full_trip_info["itinerary"]: ...
SanitizeItinerary(info) ==
    LET c == Contains("itinerary", info) IN
    IF ~c.ok THEN c
    ELSE IF ~c.v THEN Ok(info)
    ELSE IF info.t # "obj" THEN Raise("TypeError")
    ELSE LET r == ForEach(info.f["itinerary"],
                          [day_plan \in Visited(info.f["itinerary"]) |-> SanitizeDayPlan(day_plan)]) IN
         IF ~r.ok THEN r ELSE Ok(DictSet(info, "itinerary", r.v))

\* the sanitizing loops over hotels, restaurants and the itinerary's activities
SanitizeLinks(info) ==
    LET h == SanitizeSection(info, "hotels") IN
    IF ~h.ok THEN h ELSE
    LET r == SanitizeSection(h.v, "restaurants") IN
    IF ~r.ok THEN r ELSE SanitizeItinerary(r.v)

\* --------------------------------------------- validity gate, realignment
Returned(v) == [kind |-> "return", value |-> v]
Raised(e) == [kind |-> "raise", exc |-> e]
NoOutcome == [kind |-> "none"]

\* a slip in the key: "errors" is never a key of what call_gemini_api returns
IsErrorResultWrongKey(info) == info.t = "obj" /\ "errors" \in DOMAIN info.f

\* isinstance(full_trip_info, dict) and "error" in full_trip_info
IsErrorResult(info) == info.t = "obj" /\ "error" \in DOMAIN info.f

InvalidPlanError(destination) ==
    ErrorDict(<<"Could not generate a valid trip plan for ">> \o destination.s \o
              <<". The AI may not have information on this location or failed to generate a response.">>)

\* not full_trip_info or not full_trip_info.get("itinerary")
GateFails(info) ==
    IF ~Truthy(info) THEN Ok(TRUE)
    ELSE LET g == DictGet(info, "itinerary", JNull) IN
         IF ~g.ok THEN g ELSE Ok(~Truthy(g.v))

\* a slip in the slice: itinerary_from_llm[-num_days:] keeps the last entries
TrimFromEnd(itinerary_from_llm, days) ==
    LET k == IF days <= 0 THEN 0
             ELSE IF days < Len(itinerary_from_llm) THEN days ELSE Len(itinerary_from_llm)
    IN SubSeq(itinerary_from_llm, Len(itinerary_from_llm) - k + 1, Len(itinerary_from_llm))

\* itinerary_from_llm[:num_days]
Trim(itinerary_from_llm, days) == Slice(itinerary_from_llm, days)

\* day_plan['date'] = date_list[i]; day_plan['day'] = i + 1   (i counted from 1 here)
Redate(day_plan, i, dates) ==
    IF i > Len(dates) THEN Raise("IndexError")
    ELSE IF day_plan.t # "obj" THEN Raise("TypeError")
    ELSE Ok(DictSet(DictSet(day_plan, "date", dates[i]), "day", JNum(i)))

\* the trimming and the enumerate loop; info is a dict whose itinerary is truthy, and
\* the sanitizing loop has raised already unless that itinerary is a list
Realign(info, days, dates) ==
    IF info.f["itinerary"].t # "list" THEN Raise("TypeError") ELSE
    LET trimmed_itinerary == Trim(info.f["itinerary"].xs, days)
        rs == [i \in 1..Len(trimmed_itinerary) |-> Redate(trimmed_itinerary[i], i, dates)]
        bad == {i \in 1..Len(trimmed_itinerary) : ~rs[i].ok}
    IN IF bad # {} THEN Raise(rs[Min(bad)].exc)
       ELSE Ok(DictSet(info, "itinerary",
                       JList([i \in 1..Len(trimmed_itinerary) |-> rs[i].v])))

\* plan_full_trip_agent from the return of call_gemini_api to its own return
Reconcile(info, destination, days, dates) ==
    IF IsErrorResult(info) THEN Returned(info) ELSE
    LET s == SanitizeLinks(info) IN
    IF ~s.ok THEN Raised(s.exc) ELSE
    LET g == GateFails(s.v) IN
    IF ~g.ok THEN Raised(g.exc)
    ELSE IF g.v THEN Returned(InvalidPlanError(destination))
    ELSE LET r == Realign(s.v, days, dates) IN
         IF r.ok THEN Returned(r.v) ELSE Raised(r.exc)

\* ------------------------------------------------------- input validation
\* (end_date_obj - start_date_obj).days + 1
NumDays(start_date_obj, end_date_obj) == ToOrdinal(end_date_obj) - ToOrdinal(start_date_obj) + 1

\* [(start + timedelta(days=i)).strftime("%b %d, %Y") for i in range(n)]
DateList(start_date_obj, n) ==
    [i \in 1..(IF n > 0 THEN n ELSE 0) |-> strftime(AddDays(start_date_obj, i - 1))]

\* not all([destination, from_date, to_date])
Missing(destination, from_date, to_date) ==
    ~(Truthy(destination) /\ Truthy(from_date) /\ Truthy(to_date))

\* plan_full_trip_agent up to the retrieval step
Validate(destination, from_date, to_date) ==
    IF Missing(destination, from_date, to_date)
    THEN Returned(ErrorDict(<<"Please provide destination, from_date, and to_date.">>))
    ELSE LET s == strptime(from_date) IN
         IF ~s.ok
         THEN IF s.exc = "ValueError"
              THEN Returned(ErrorDict(<<"Invalid date format. Please use YYYY-MM-DD.">>))
              ELSE Raised(s.exc)
         ELSE LET e == strptime(to_date) IN
              IF ~e.ok
              THEN IF e.exc = "ValueError"
                   THEN Returned(ErrorDict(<<"Invalid date format. Please use YYYY-MM-DD.">>))
                   ELSE Raised(e.exc)
              ELSE [kind |-> "continue",
                    num_days |-> NumDays(s.v, e.v),
                    date_list |-> DateList(s.v, NumDays(s.v, e.v))]

\* ------------------------------------------------------------- the inputs
\* the first calendar day requests are drawn from; the span crosses a month end
FirstDay == [y |-> 2025, m |-> 2, d |-> 27]
IsoDate(dt) == DateStr("%Y-%m-%d", dt.y, dt.m, dt.d)

Destinations == {None, JStr(<<>>), JStr(<<"Kyoto, Japan">>), JStr(<<"Rome">>)}
DateInputs ==
    {None, JStr(<<>>)}
    \cup {IsoDate(AddDays(FirstDay, k)) : k \in 0..(MaxSpan - 1)}
    \cup {DateStr("%d/%m/%Y", 2025, 2, 28), DateStr("%Y-%m-%d", 2025, 2, 30),
          JStr(<<"Dec 1-7, 2025">>)}
Preferences == {None, JStr(<<"historical">>)}

BareLink == <<"https://", "maps.example/x">>
WrappedLink == <<"[", "Text", "]", "(", "https://", "maps.example/x", ")">>
\* a wrapper inside a sentence, and a wrapper around a link that is not http(s)
EmbeddedLink == <<"See ", "[", "Text", "]", "(", "http://", "maps.example/y", ")", " now">>
OtherSchemeLink == <<"[", "Text", "]", "(", "ftp://", "files.example/x", ")">>

Hotel(link) ==
    JObj([name |-> JStr(<<"Inn">>), description |-> JStr(<<"central">>),
          price_range |-> JStr(<<"$$">>), map_link |-> link])
Restaurant(link) ==
    JObj([name |-> JStr(<<"Izakaya">>), cuisine |-> JStr(<<"local">>),
          recommendation_reason |-> JStr(<<"popular">>), map_link |-> link])
Activity(link) ==
    JObj([name |-> JStr(<<"Temple">>), description |-> JStr(<<"visit">>), map_link |-> link])
TimedActivity(link) ==
    JObj([time |-> JStr(<<"09:00">>), name |-> JStr(<<"Market">>),
          description |-> JStr(<<"walk">>), map_link |-> link])
DayPlan(day, date, activities) ==
    JObj([day |-> day, date |-> date, activities |-> JList(activities)])
Plan(hotels, restaurants, itinerary, sources) ==
    JObj([hotels |-> hotels, restaurants |-> restaurants,
          itinerary |-> itinerary, sources |-> sources])

\* a day the model numbered and dated wrongly, and one it numbered 1 and dated FirstDay
DriftedDay == DayPlan(JNum(7), JStr(<<"someday">>), <<Activity(JStr(WrappedLink))>>)
FirstDayPlan ==
    DayPlan(JNum(1), strftime(FirstDay),
            <<TimedActivity(JStr(BareLink)), Activity(JStr(WrappedLink))>>)

SomeHotels ==
    JList(<<Hotel(JStr(WrappedLink)), Hotel(JStr(BareLink)), Hotel(JStr(OtherSchemeLink))>>)
SomeRestaurants == JList(<<Restaurant(JStr(BareLink)), Restaurant(JStr(EmbeddedLink))>>)
SomeSources == JList(<<JStr(<<"kyoto.pdf">>)>>)

Itineraries == UNION {[1..n -> {DriftedDay, FirstDayPlan}] : n \in 0..MaxItin}

\* plans of the schema's shape, with every itinerary up to MaxItin days
ShapedPlans == {Plan(SomeHotels, SomeRestaurants, JList(it), SomeSources) : it \in Itineraries}

\* parsed payloads that break the schema
OddPayloads ==
    {JNull, JNum(5), JStr(<<"sorry">>), JList(<<>>), JList(<<JNum(1)>>), EmptyDict,
     JObj([error |-> JStr(<<"quota exceeded">>)]),
     JObj([hotels |-> SomeHotels, restaurants |-> SomeRestaurants, sources |-> SomeSources]),
     JObj([hotels |-> JNull, restaurants |-> SomeRestaurants, sources |-> SomeSources]),
     JObj([itinerary |-> JList(<<FirstDayPlan, DriftedDay>>)]),
     JObj([hotels |-> SomeHotels, itinerary |-> JList(<<DriftedDay>>), sources |-> SomeSources]),
     Plan(SomeHotels, SomeRestaurants, JNull, SomeSources),
     Plan(SomeHotels, SomeRestaurants, JStr(<<>>), SomeSources),
     Plan(SomeHotels, SomeRestaurants, JList(<<JNull>>), SomeSources),
     Plan(SomeHotels, SomeRestaurants, JList(<<JObj([day |-> JNum(1)])>>), SomeSources),
     Plan(SomeHotels, SomeRestaurants,
          JList(<<DayPlan(JNum(1), JStr(<<"someday">>), <<Activity(JNull)>>)>>), SomeSources),
     Plan(JList(<<Hotel(JNull)>>), SomeRestaurants, JList(<<FirstDayPlan>>), SomeSources),
     Plan(JList(<<JStr(<<"Inn">>)>>), JObj([name |-> JStr(<<"Izakaya">>)]),
          JList(<<FirstDayPlan>>), SomeSources)}

Payloads == ShapedPlans \cup OddPayloads

Exception(e) == [kind |-> "exception", exc |-> e]
Response(status, body) == [kind |-> "response", status |-> status, body |-> body]
NotJson(e) == [t |-> "not_json", exc |-> e]
Candidates(cs) == JObj([candidates |-> cs])
WithParts(parts) == Candidates(JList(<<JObj([content |-> JObj([parts |-> parts])])>>))
WithText(text) == WithParts(JList(<<JObj([text |-> text])>>))

\* the request never completes, or completes with an error status or a non-JSON body
TransportFailures ==
    {Exception("ConnectionError"), Exception("Timeout"), Response(500, EmptyDict),
     Response(200, NotJson("requests.JSONDecodeError")), Response(200, NotJson("ValueError"))}
\* 200 responses with no candidates, no content, no parts or no text
EmptyResponses ==
    {Response(200, EmptyDict),
     Response(200, Candidates(JList(<<>>))),
     Response(200, Candidates(JList(<<EmptyDict>>))),
     Response(200, Candidates(JList(<<JObj([content |-> EmptyDict])>>))),
     Response(200, WithParts(JList(<<>>))),
     Response(200, WithParts(JList(<<EmptyDict>>))),
     Response(200, WithText(JStr(<<>>))),
     Response(200, WithText(JNull))}
\* 200 responses whose text is not JSON
UnparsableResponses == {Response(200, WithText(JStr(<<"Here is your plan:">>)))}
\* 200 responses whose text is the JSON of a payload
ParsedResponses == {Response(200, WithText(JsonText(p))) : p \in Payloads}

HttpOutcomes ==
    TransportFailures \cup EmptyResponses \cup UnparsableResponses \cup ParsedResponses
    \cup {Response(200, JList(<<>>))}

\* ------------------------------------------------ the store and the folder
\* nothing at the store path; files there that do not deserialize
Absent == [t |-> "absent"]
Corrupt == [t |-> "corrupt"]
NoFolder == [t |-> "absent"]
\* what a folder entry holds: the pages a loader extracts from it, a file no loader
\* can read, or a sub-directory
Pages(texts) == [t |-> "pages", texts |-> texts]
Unreadable == [t |-> "unreadable"]
Directory == [t |-> "directory"]
Entry(filename, holds) == [filename |-> filename, holds |-> holds]
Folder(listing) == [t |-> "dir", listing |-> listing]

\* filename.split('.')
Pieces(filename) ==
    CASE filename = "kyoto.pdf" -> <<"kyoto", "pdf">>
      [] filename = "maps.pdf" -> <<"maps", "pdf">>
      [] filename = "GUIDE.PDF" -> <<"GUIDE", "PDF">>
      [] filename = "food.txt" -> <<"food", "txt">>
      [] filename = "old.txt" -> <<"old", "txt">>
      [] filename = "notes.docx" -> <<"notes", "docx">>
      [] filename = "photo.jpg" -> <<"photo", "jpg">>
      [] OTHER -> <<filename>>
\* str.lower()
Lower(piece) ==
    CASE piece = "PDF" -> "pdf"
      [] piece = "GUIDE" -> "guide"
      [] piece = "README" -> "readme"
      [] OTHER -> piece
\* ext = filename.split('.')[-1].lower()
Extension(filename) == Lower(Pieces(filename)[Len(Pieces(filename))])

\* a loaded record: page_content and metadata = {"source": filename}
Document(page_content, filename) ==
    [page_content |-> page_content, metadata |-> [source |-> filename]]

\* PyPDFLoader(file_path), TextLoader(file_path), UnstructuredWordDocumentLoader(file_path):
\* PyPDFLoader refuses a path that is not a file, the other two take any path
MakeLoader(ext, entry) ==
    IF ext = "pdf" /\ entry.holds = Directory THEN Raise("ValueError")
    ELSE Ok([ext |-> ext, entry |-> entry])

\* loader.load() and the retagging of every record with its filename
LoadAndTag(loader) ==
    IF loader.entry.holds.t = "pages"
    THEN Ok([i \in 1..Len(loader.entry.holds.texts) |->
               Document(loader.entry.holds.texts[i], loader.entry.filename)])
    ELSE Raise("RuntimeError")

\* the loop over os.listdir(folder_path)
RECURSIVE LoadEntries(_, _, _)
LoadEntries(listing, i, docs) ==
    IF i > Len(listing) THEN Ok(docs)
    ELSE LET ext == Extension(listing[i].filename) IN
         IF ext \notin {"pdf", "txt", "docx"} THEN LoadEntries(listing, i + 1, docs)
         ELSE LET loader == MakeLoader(ext, listing[i]) IN
              IF ~loader.ok THEN loader
              ELSE LET loaded == LoadAndTag(loader.v) IN
                   IF loaded.ok THEN LoadEntries(listing, i + 1, docs \o loaded.v)
                   ELSE LoadEntries(listing, i + 1, docs)

load_documents_from_folder(folder_path) ==
    IF folder_path.t = "absent" THEN Ok(<<>>)
    ELSE LoadEntries(folder_path.listing, 1, <<>>)

\* text_splitter.split_documents(docs): every text here fits one chunk, an empty
\* text gives none
NonEmptyText(doc) == doc.page_content # <<>>
split_documents(docs) == SelectSeq(docs, NonEmptyText)

\* a slip in the guard: the store is never found
StoreExistsNever(store_path) == FALSE

\* os.path.exists(store_path)
StoreExists(store_path) == store_path.t # "absent"

\* FAISS.load_local(store_path, embeddings, ...)
load_local(store_path) ==
    IF store_path.t = "faiss" THEN Ok(store_path) ELSE Raise("RuntimeError")

\* what FAISS.from_documents and save_local can do
BuildIO == {"ok", "embedding fails", "save fails", "save fails half-written"}
BuildResult(result, store_path, embedded, loaded) ==
    [result |-> result, store |-> store_path, embedded |-> embedded, loaded |-> loaded]

\* a slip in the guard: an empty load is raised as a fault
NoDocumentsRaises(store_path) == BuildResult(Raised("ValueError"), store_path, 0, TRUE)

\* if not docs: return
NoDocuments(store_path) == BuildResult(Returned(None), store_path, 0, TRUE)

create_vector_store_from_folder(folder_path, store_path, io) ==
    IF StoreExists(store_path)
    THEN LET db == load_local(store_path) IN
         BuildResult(IF db.ok THEN Returned(db.v) ELSE Raised(db.exc), store_path, 0, FALSE)
    ELSE LET docs == load_documents_from_folder(folder_path) IN
         IF ~docs.ok THEN BuildResult(Raised(docs.exc), store_path, 0, TRUE)
         ELSE IF docs.v = <<>> THEN NoDocuments(store_path)
         ELSE LET chunked_docs == split_documents(docs.v)
                  vector_store == [t |-> "faiss", chunks |-> Range(chunked_docs)]
              IN IF chunked_docs = <<>> \/ io = "embedding fails"
                 THEN BuildResult(Returned(None), store_path, 1, TRUE)
                 ELSE IF io = "save fails"
                 THEN BuildResult(Returned(None), store_path, 1, TRUE)
                 ELSE IF io = "save fails half-written"
                 THEN BuildResult(Returned(None), Corrupt, 1, TRUE)
                 ELSE BuildResult(Returned(vector_store), vector_store, 1, TRUE)

\* the entries a folder may list
Entries ==
    {Entry("kyoto.pdf", Pages(<<<<"temples">>, <<"gardens">>>>)),
     Entry("food.txt", Pages(<<<<"ramen">>>>)),
     Entry("notes.docx", Pages(<<<<>>>>)),
     Entry("GUIDE.PDF", Unreadable),
     Entry("old.txt", Directory),
     Entry("maps.pdf", Directory),
     Entry("README", Pages(<<<<"about">>>>)),
     Entry("photo.jpg", Unreadable)}
\* os.listdir: any order, every name once
FolderListings(n) == {q \in [1..n -> Entries] : \A i, j \in 1..n : q[i] = q[j] => i = j}
Folders == {NoFolder} \cup {Folder(q) : q \in UNION {FolderListings(n) : n \in 0..MaxFiles}}
Stores == {Absent, Corrupt, LoadedIndex}


\* no call of rag_processor.py has been made
IndexIdle ==
    /\ folder = NoFolder
    /\ documents = NoOutcome
    /\ built = NoOutcome
    /\ embedCalls = 0
    /\ loadCalls = 0
    /\ buildCalls = 0

\* ---------------------------------------------------------- the pipeline
NoRequest == [destination |-> None, from_date |-> None, to_date |-> None, preferences |-> None]
NoPrompt == [template |-> "none"]
NoHttp == [kind |-> "none"]
NoRetrieval == [context |-> <<>>, sources |-> <<>>]
GemOff == [phase |-> "off"]

\* a request that has not arrived: the locals of a call not yet made
Tasks == 1..MaxTasks
IdleTask ==
    [pc |-> "idle", req |-> NoRequest, num_days |-> 0, date_list |-> <<>>,
     search_results |-> <<>>, retrieved |-> NoRetrieval, prompt |-> NoPrompt,
     http |-> NoHttp, full_trip_info |-> None, outcome |-> [kind |-> "none"],
     response |-> [kind |-> "none"]]
ConcIdle ==
    /\ tasks = [t \in Tasks |-> IdleTask]
    /\ loop = 0

\* the module is imported: FAISS.load_local succeeds, or fails and leaves vector_db None
Init ==
    /\ vector_db \in {None, LoadedIndex}
    /\ pc = "idle"
    /\ req = NoRequest
    /\ num_days = 0
    /\ date_list = <<>>
    /\ search_results = <<>>
    /\ retrieved = NoRetrieval
    /\ prompt = NoPrompt
    /\ http = NoHttp
    /\ full_trip_info = None
    /\ outcome = NoOutcome
    /\ searchCalls = 0
    /\ modelCalls = 0
    /\ gem = GemOff
    /\ store = (IF vector_db = None THEN Absent ELSE LoadedIndex)
    /\ IndexIdle
    /\ startup = Returned(vector_db)
    /\ response = NoOutcome
    /\ ConcIdle

\* plan_full_trip_agent is called: the checks and the date arithmetic before any I/O
Start(destination, from_date, to_date, preferences) ==
    /\ pc = "idle"
    /\ req' = [destination |-> destination, from_date |-> from_date,
               to_date |-> to_date, preferences |-> preferences]
    /\ LET v == Validate(destination, from_date, to_date) IN
       IF v.kind = "continue"
       THEN /\ pc' = "retrieving"
            /\ num_days' = v.num_days
            /\ date_list' = v.date_list
            /\ outcome' = NoOutcome
       ELSE /\ pc' = "done"
            /\ outcome' = v
            /\ UNCHANGED <<num_days, date_list>>
    /\ UNCHANGED <<vector_db, search_results, retrieved, prompt, http, full_trip_info,
                   searchCalls, modelCalls, gem, indexVars, response, concVars>>

\* get_context_with_sources(rag_query, vector_db), then the choice of the prompt
Retrieve ==
    /\ pc = "retrieving"
    /\ IF ~Truthy(vector_db)
       THEN LET r == IndexUnavailable IN
            IF r.ok
            THEN /\ retrieved' = [context |-> r.v.context, sources |-> SetToSeq(r.v.sources)]
                 /\ prompt' = ComposePrompt(req.destination, req.preferences, date_list,
                                            r.v.context, SetToSeq(r.v.sources))
                 /\ pc' = "generating"
                 /\ UNCHANGED <<search_results, searchCalls, outcome>>
            ELSE /\ outcome' = Raised(r.exc)
                 /\ pc' = "done"
                 /\ UNCHANGED <<search_results, searchCalls, retrieved, prompt>>
       ELSE \E results \in SearchOutcomes(vector_db) :
              /\ search_results' = results
              /\ searchCalls' = searchCalls + 1
              /\ LET r == get_context_with_sources(results) IN
                 IF r.ok
                 THEN \E listing \in Listings(r.v.sources) :
                        /\ retrieved' = [context |-> r.v.context, sources |-> listing]
                        /\ prompt' = ComposePrompt(req.destination, req.preferences,
                                                   date_list, r.v.context, listing)
                        /\ pc' = "generating"
                        /\ UNCHANGED outcome
                 ELSE /\ outcome' = Raised(r.exc)
                      /\ pc' = "done"
                      /\ UNCHANGED <<retrieved, prompt>>
    /\ UNCHANGED <<vector_db, req, num_days, date_list, http, full_trip_info, modelCalls, gem,
                   indexVars, response, concVars>>

\* where control goes once call_gemini_api has returned: the function returns
AfterGeneration(info) == "done"

\* call_gemini_api(prompt, response_schema=response_schema) and the rest of the function;
\* the backend's answer, a local of get_context_with_sources, is kept until here so
\* that it can be related to the prompt
Generate ==
    /\ pc = "generating"
    /\ \E h \in HttpOutcomes :
         LET info == call_gemini_api(TRUE, h) IN
         /\ http' = h
         /\ modelCalls' = modelCalls + 1
         /\ full_trip_info' = info
         /\ outcome' = Reconcile(info, req.destination, num_days, date_list)
         /\ pc' = AfterGeneration(info)
    /\ search_results' = <<>>
    /\ UNCHANGED <<vector_db, req, num_days, date_list, retrieved, prompt, searchCalls, gem,
                   indexVars, response, concVars>>

\* the caller has the result; the next call starts with fresh locals
Finish ==
    /\ pc = "done"
    /\ pc' = "idle"
    /\ req' = NoRequest
    /\ num_days' = 0
    /\ date_list' = <<>>
    /\ search_results' = <<>>
    /\ retrieved' = NoRetrieval
    /\ prompt' = NoPrompt
    /\ http' = NoHttp
    /\ full_trip_info' = None
    /\ outcome' = NoOutcome
    /\ searchCalls' = 0
    /\ modelCalls' = 0
    /\ UNCHANGED <<vector_db, gem, indexVars, response, concVars>>

Next ==
    \/ \E d \in Destinations, f \in DateInputs, t \in DateInputs, p \in Preferences :
         Start(d, f, t, p)
    \/ Retrieve
    \/ Generate
    \/ Finish

Spec == Init /\ [][Next]_vars

\* ---------------------------------------- call_gemini_api as a function
\* a call with or without a response schema, against every HTTP exchange
GemInit ==
    /\ vector_db = None
    /\ pc = "gemini"
    /\ req = NoRequest
    /\ num_days = 0
    /\ date_list = <<>>
    /\ search_results = <<>>
    /\ retrieved = NoRetrieval
    /\ prompt = NoPrompt
    /\ http = NoHttp
    /\ full_trip_info = None
    /\ outcome = NoOutcome
    /\ searchCalls = 0
    /\ modelCalls = 0
    /\ gem \in {[phase |-> "called", schema |-> b, h |-> h, result |-> None] :
                  b \in BOOLEAN, h \in HttpOutcomes}
    /\ store = Absent
    /\ IndexIdle
    /\ startup = Returned(vector_db)
    /\ response = NoOutcome
    /\ ConcIdle

GemCall ==
    /\ gem.phase = "called"
    /\ gem' = [gem EXCEPT !.phase = "returned",
                          !.result = call_gemini_api(gem.schema, gem.h)]
    /\ UNCHANGED <<vector_db, pc, req, num_days, date_list, search_results, retrieved,
                   prompt, http, full_trip_info, outcome, searchCalls, modelCalls,
                   indexVars, response, concVars>>

GemNext == GemCall

SpecGemini == GemInit /\ [][GemNext]_vars

\* ------------------------------------- building and loading the index
\* a store path and a folder as they may be found, before any call
IndexInit ==
    /\ vector_db = None
    /\ pc = "index"
    /\ req = NoRequest
    /\ num_days = 0
    /\ date_list = <<>>
    /\ search_results = <<>>
    /\ retrieved = NoRetrieval
    /\ prompt = NoPrompt
    /\ http = NoHttp
    /\ full_trip_info = None
    /\ outcome = NoOutcome
    /\ searchCalls = 0
    /\ modelCalls = 0
    /\ gem = GemOff
    /\ store \in Stores
    /\ folder \in Folders
    /\ documents = NoOutcome
    /\ built = NoOutcome
    /\ embedCalls = 0
    /\ loadCalls = 0
    /\ buildCalls = 0
    /\ startup = NoOutcome
    /\ response = NoOutcome
    /\ ConcIdle

\* create_vector_store_from_folder(folder, store) is called
Build ==
    /\ pc = "index"
    /\ buildCalls < MaxBuilds
    /\ \E io \in BuildIO :
         LET r == create_vector_store_from_folder(folder, store, io) IN
         /\ built' = r.result
         /\ store' = r.store
         /\ embedCalls' = embedCalls + r.embedded
         /\ loadCalls' = loadCalls + (IF r.loaded THEN 1 ELSE 0)
    /\ buildCalls' = buildCalls + 1
    /\ UNCHANGED <<vector_db, pc, req, num_days, date_list, search_results, retrieved,
                   prompt, http, full_trip_info, outcome, searchCalls, modelCalls, gem,
                   folder, documents, startup, response, concVars>>

\* load_documents_from_folder(folder) is called on its own
LoadFolder ==
    /\ pc = "index"
    /\ documents = NoOutcome
    /\ LET r == load_documents_from_folder(folder) IN
       documents' = IF r.ok THEN Returned(r.v) ELSE Raised(r.exc)
    /\ loadCalls' = loadCalls + 1
    /\ UNCHANGED <<vector_db, pc, req, num_days, date_list, search_results, retrieved,
                   prompt, http, full_trip_info, outcome, searchCalls, modelCalls, gem,
                   store, folder, built, embedCalls, buildCalls, startup, response, concVars>>

\* single_trip_agent is imported: the try/except around FAISS.load_local
ImportAgent ==
    /\ pc = "index"
    /\ startup = NoOutcome
    /\ LET db == load_local(store) IN
       /\ vector_db' = IF db.ok THEN db.v ELSE None
       /\ startup' = Returned(vector_db')
    /\ UNCHANGED <<pc, req, num_days, date_list, search_results, retrieved,
                   prompt, http, full_trip_info, outcome, searchCalls, modelCalls, gem,
                   store, folder, documents, built, embedCalls, loadCalls, buildCalls,
                   response, concVars>>

IndexNext == Build \/ LoadFolder \/ ImportAgent

SpecIndex == IndexInit /\ [][IndexNext]_vars

\* --------------------------------------- the /plan-full-trip route
\* HTTPException(status_code=..., detail=...)
HTTPException(status_code, detail) ==
    [kind |-> "http_error", status_code |-> status_code, detail |-> detail]
\* str(e): "<status_code>: <detail>" of an HTTPException, the name of any other
StrOf(e) ==
    IF e.kind = "http_error"
    THEN <<ToString(e.status_code), ": ">> \o (IF e.detail.t = "str" THEN e.detail.s ELSE <<>>)
    ELSE <<e.exc>>

\* the body of the try: the agent's result, an HTTPException raised on a tagged error
RouteTry(agent) ==
    IF agent.kind = "raise" THEN Raise(agent)
    ELSE IF agent.value.t = "obj" /\ "error" \in DOMAIN agent.value.f
         THEN Raise(HTTPException(500, agent.value.f["error"]))
         ELSE Ok([kind |-> "response", body |-> JObj([data |-> agent.value])])

\* except Exception as e: raise HTTPException(500, f"An internal error occurred: {e}")
ExceptHandler(e) == HTTPException(500, JStr(<<"An internal error occurred: ">> \o StrOf(e)))

\* what the handler of POST /plan-full-trip sends for a result of the agent
plan_full_trip(agent) ==
    LET r == RouteTry(agent) IN
    IF r.ok THEN r.v ELSE ExceptHandler(r.exc)

\* TripPlanRequest: destination a non-empty string, the dates strings, preferences optional
RouteRequests ==
    {[destination |-> d, from_date |-> f, to_date |-> t, preferences |-> p] :
        d \in {x \in Destinations : x.t = "str" /\ x.s # <<>>},
        f \in {x \in DateInputs : x.t \in {"str", "date_str"}},
        t \in {x \in DateInputs : x.t \in {"str", "date_str"}},
        p \in Preferences}

\* the service is up with no index loaded, and no request has come in
RouteInit ==
    /\ vector_db = None
    /\ pc = "idle"
    /\ req = NoRequest
    /\ num_days = 0
    /\ date_list = <<>>
    /\ search_results = <<>>
    /\ retrieved = NoRetrieval
    /\ prompt = NoPrompt
    /\ http = NoHttp
    /\ full_trip_info = None
    /\ outcome = NoOutcome
    /\ searchCalls = 0
    /\ modelCalls = 0
    /\ gem = GemOff
    /\ store = Absent
    /\ IndexIdle
    /\ startup = Returned(vector_db)
    /\ response = NoOutcome
    /\ ConcIdle

\* POST /plan-full-trip: the handler calls plan_full_trip_agent with the request's fields
RouteCall ==
    \E r \in RouteRequests : Start(r.destination, r.from_date, r.to_date, r.preferences)

\* the agent has returned or raised: the rest of the handler
Respond ==
    /\ pc = "done"
    /\ response' = plan_full_trip(outcome)
    /\ pc' = "responded"
    /\ UNCHANGED <<vector_db, req, num_days, date_list, search_results, retrieved, prompt,
                   http, full_trip_info, outcome, searchCalls, modelCalls, gem, indexVars, concVars>>

RouteNext == RouteCall \/ Retrieve \/ Generate \/ Respond

SpecRoute == RouteInit /\ [][RouteNext]_vars

\* --------------------------------- single_main's /api/plan-full-trip endpoint
\* except HTTPException as e: raise e
\* except Exception as e: raise HTTPException(500, f"Failed to plan full trip: {e}")
MainExceptHandler(e) ==
    IF e.kind = "http_error" THEN e
    ELSE HTTPException(500, JStr(<<"Failed to plan full trip: ">> \o StrOf(e)))

\* what the handler of POST /api/plan-full-trip sends for a result of the agent
plan_full_trip_main(agent) ==
    LET r == RouteTry(agent) IN
    IF r.ok THEN r.v ELSE MainExceptHandler(r.exc)

\* single_main's TripPlanRequest: destination and dates non-empty strings, preferences
\* an optional string (free text, or text that happens to be a date)
MainRequests ==
    {[destination |-> d, dates |-> ds, preferences |-> p] :
        d \in {x \in Destinations : x.t = "str" /\ x.s # <<>>},
        ds \in {x \in DateInputs : x.t \in {"str", "date_str"} /\ x # JStr(<<>>)},
        p \in Preferences \cup {IsoDate(AddDays(FirstDay, k)) : k \in 0..(MaxSpan - 1)}}

\* plan_full_trip_agent(request.destination, request.dates, request.preferences): the
\* three values bind to destination, from_date and to_date; preferences keeps its
\* default ""
MainCall ==
    \E r \in MainRequests : Start(r.destination, r.dates, r.preferences, JStr(<<>>))

\* the agent has returned or raised: the rest of the handler
MainRespond ==
    /\ pc = "done"
    /\ response' = plan_full_trip_main(outcome)
    /\ pc' = "responded"
    /\ UNCHANGED <<vector_db, req, num_days, date_list, search_results, retrieved, prompt,
                   http, full_trip_info, outcome, searchCalls, modelCalls, gem, indexVars, concVars>>

MainNext == MainCall \/ Retrieve \/ Generate \/ MainRespond

SpecMain == RouteInit /\ [][MainNext]_vars

\* ------------------------------------------------ requests in flight at once
\* the requests, the backend's answers and the model's answers of concurrent calls
TaskRequests ==
    {[destination |-> JStr(<<"Kyoto, Japan">>), from_date |-> IsoDate(FirstDay),
      to_date |-> IsoDate(AddDays(FirstDay, 1)), preferences |-> JStr(<<"historical">>)],
     [destination |-> JStr(<<"Rome">>), from_date |-> IsoDate(FirstDay),
      to_date |-> IsoDate(FirstDay), preferences |-> None],
     [destination |-> JStr(<<"Rome">>), from_date |-> JStr(<<"Dec 1-7, 2025">>),
      to_date |-> IsoDate(FirstDay), preferences |-> None]}
TaskSearches(db) ==
    {r \in SearchOutcomes(db) :
        /\ r[1].score > RELEVANCE_THRESHOLD
        /\ \A i \in 2..Len(r) : r[i].score < RELEVANCE_THRESHOLD
        /\ r[Len(r)].doc.metadata["source"] = "food.txt"}
TaskHttp ==
    {Exception("Timeout"),
     Response(200, WithText(JsonText(EmptyDict))),
     Response(200, WithText(JsonText(Plan(SomeHotels, SomeRestaurants,
                                          JList(<<DriftedDay, FirstDayPlan>>), SomeSources))))}

\* a slip in the search: the best hit is taken out of the index
IndexAfterSearchPopsHit(db, results) == [db EXCEPT !.chunks = @ \ {results[1].doc}]

\* the module-level index once a call has searched it and scanned the results:
\* similarity_search_with_relevance_scores and the scan read it and assign nothing
IndexAfterSearch(db, results) == db

\* the variables of the one-request pipeline, which no concurrent step touches
Others ==
    UNCHANGED <<pc, req, num_days, date_list, search_results, retrieved, prompt, http,
                full_trip_info, outcome, searchCalls, modelCalls, gem, indexVars, response>>

\* a request arrives: the call of request t is made with its arguments
Arrive(t) ==
    /\ tasks[t].pc = "idle"
    /\ \E r \in TaskRequests : tasks' = [tasks EXCEPT ![t].pc = "arrived", ![t].req = r]
    /\ UNCHANGED vector_db

\* request t: the checks and the date arithmetic before any I/O
TaskStart(t) ==
    /\ tasks[t].pc = "arrived"
    /\ LET k == tasks[t]
           v == Validate(k.req.destination, k.req.from_date, k.req.to_date)
       IN tasks' = [tasks EXCEPT ![t] =
                      IF v.kind = "continue"
                      THEN [k EXCEPT !.pc = "retrieving", !.num_days = v.num_days,
                                     !.date_list = v.date_list]
                      ELSE [k EXCEPT !.pc = "done", !.outcome = v]]
    /\ UNCHANGED vector_db

\* request t: get_context_with_sources(rag_query, vector_db) on the module's index,
\* then the choice of the prompt
TaskRetrieve(t) ==
    /\ tasks[t].pc = "retrieving"
    /\ LET k == tasks[t] IN
       IF ~Truthy(vector_db)
       THEN LET r == IndexUnavailable IN
            /\ tasks' = [tasks EXCEPT ![t] =
                  IF r.ok
                  THEN [k EXCEPT !.retrieved = [context |-> r.v.context,
                                                sources |-> SetToSeq(r.v.sources)],
                                 !.prompt = ComposePrompt(k.req.destination, k.req.preferences,
                                                          k.date_list, r.v.context,
                                                          SetToSeq(r.v.sources)),
                                 !.pc = "generating"]
                  ELSE [k EXCEPT !.outcome = Raised(r.exc), !.pc = "done"]]
            /\ UNCHANGED vector_db
       ELSE \E results \in TaskSearches(vector_db) :
              LET r == get_context_with_sources(results) IN
              /\ vector_db' = IndexAfterSearch(vector_db, results)
              /\ IF r.ok
                 THEN \E listing \in Listings(r.v.sources) :
                        tasks' = [tasks EXCEPT ![t] =
                          [k EXCEPT !.search_results = results,
                                    !.retrieved = [context |-> r.v.context, sources |-> listing],
                                    !.prompt = ComposePrompt(k.req.destination,
                                                             k.req.preferences, k.date_list,
                                                             r.v.context, listing),
                                    !.pc = "generating"]]
                 ELSE tasks' = [tasks EXCEPT ![t] =
                          [k EXCEPT !.search_results = results,
                                    !.outcome = Raised(r.exc), !.pc = "done"]]

\* request t: call_gemini_api(prompt, response_schema=response_schema) returns, and the
\* rest of plan_full_trip_agent runs on the value it returned
TaskGenerate(t) ==
    /\ tasks[t].pc = "generating"
    /\ \E h \in TaskHttp :
         LET k == tasks[t]
             info == call_gemini_api(TRUE, h)
         IN tasks' = [tasks EXCEPT ![t] =
                        [k EXCEPT !.http = h, !.full_trip_info = info,
                                  !.outcome = Reconcile(info, k.req.destination,
                                                        k.num_days, k.date_list),
                                  !.pc = "done"]]
    /\ UNCHANGED vector_db

\* request t: the rest of the route's handler
TaskRespond(t) ==
    /\ tasks[t].pc = "done"
    /\ tasks' = [tasks EXCEPT ![t].response = plan_full_trip(tasks[t].outcome),
                              ![t].pc = "responded"]
    /\ UNCHANGED vector_db

\* request t is made: a caller's thread calls the agent, or the server accepts the
\* request and schedules the coroutine of its handler
Accept(t) == Arrive(t) /\ UNCHANGED loop /\ Others

\* one step of call t, whatever the other calls are doing
StepStart(t) == TaskStart(t) /\ UNCHANGED loop /\ Others
StepRetrieve(t) == TaskRetrieve(t) /\ UNCHANGED loop /\ Others
StepGenerate(t) == TaskGenerate(t) /\ UNCHANGED loop /\ Others

\* calls of plan_full_trip_agent made from several threads: any interleaving of their steps
AgentsNext ==
    \E t \in Tasks : Accept(t) \/ StepStart(t) \/ StepRetrieve(t) \/ StepGenerate(t)

SpecAgents == Init /\ [][AgentsNext]_vars

\* the event loop, running no coroutine, runs the handler of request t
Dispatch(t) == loop = 0 /\ TaskStart(t) /\ loop' = t /\ Others

\* the handler of request t goes on: "async def plan_full_trip" calls the agent without
\* an await, so the loop stays in this coroutine through the retrieval and the
\* blocking requests.post of call_gemini_api
Continue(t) == loop = t /\ (StepRetrieve(t) \/ StepGenerate(t))

\* the handler of request t returns or raises; the loop is free again
Complete(t) == loop = t /\ TaskRespond(t) /\ loop' = 0 /\ Others

ServiceNext == \E t \in Tasks : Accept(t) \/ Dispatch(t) \/ Continue(t) \/ Complete(t)

SpecService == Init /\ [][ServiceNext]_vars

\* ------------------------------------------------- vocabulary of the claims
\* the day count of a calendar date (Julian day number)
DayNumber(y, m, d) ==
    LET a == (14 - m) \div 12
        yy == y + 4800 - a
        mm == m + 12 * a - 3
    IN d + ((153 * mm + 2) \div 5) + 365 * yy + (yy \div 4) - (yy \div 100) + (yy \div 400) - 32045
MonthLengths == <<31, 28, 31, 30, 31, 30, 31, 31, 30, 31, 30, 31>>
\* s is YYYY-MM-DD and names a day of the calendar
ParsesAsDate(s) ==
    /\ s.t = "date_str"
    /\ s.form = "%Y-%m-%d"
    /\ s.m \in 1..12
    /\ s.d >= 1
    /\ s.d <= MonthLengths[s.m] + (IF s.m = 2 /\ IsLeap(s.y) THEN 1 ELSE 0)
IsAbsent(x) == x = None \/ x = JStr(<<>>)
BothParse == ~IsAbsent(req.destination) /\ ParsesAsDate(req.from_date) /\ ParsesAsDate(req.to_date)
FromDay == DayNumber(req.from_date.y, req.from_date.m, req.from_date.d)
ToDay == DayNumber(req.to_date.y, req.to_date.m, req.to_date.d)
RequestedDays == ToDay - FromDay + 1
ValidRange == BothParse /\ FromDay <= ToDay
InvertedRange == BothParse /\ FromDay > ToDay
\* the calendar days a request can name or reach
CalendarDays == {[y |-> 2025, m |-> m, d |-> d] : m \in 2..3, d \in 1..28}
\* the human-readable form of the i-th day of the requested range
RequestedDate(i) ==
    LET dt == CHOOSE c \in CalendarDays : DayNumber(c.y, c.m, c.d) = FromDay + i - 1
    IN JStr(<<MonthAbbr[dt.m], " ", TwoDigits(dt.d), ", ", ToString(dt.y)>>)

HasTaggedError(v) == v.t = "obj" /\ "error" \in DOMAIN v.f /\ v.f["error"].t = "str"
ReturnedPlan == pc = "done" /\ outcome.kind = "return" /\ ~HasTaggedError(outcome.value)
ReturnedFailure == pc = "done" /\ outcome.kind = "return" /\ HasTaggedError(outcome.value)
\* the itinerary call_gemini_api handed back, and the one the caller gets
ModelItinerary == full_trip_info.f["itinerary"].xs
FinalItinerary == outcome.value.f["itinerary"].xs

\* ------------------------------------------------------------------ claims
\* C1: whenever a plan is returned for a valid date range (fromDate <= toDate), its
\* itinerary has exactly numDays entries, entry i numbered i+1 and dated dateList[i],
\* whatever itinerary the model returned.
C1_ItineraryCoversEveryDay ==
    (ReturnedPlan /\ ValidRange) =>
        /\ Len(FinalItinerary) = RequestedDays
        /\ \A i \in 1..Len(FinalItinerary) :
             /\ FinalItinerary[i].f["day"] = JNum(i)
             /\ FinalItinerary[i].f["date"] = RequestedDate(i)

\* C2: when both dates parse but fromDate is after toDate, the call fails with the
\* invalid date format/range error before any retrieval or model call.
C2_InvertedRangeRejected ==
    (pc # "idle" /\ InvertedRange) =>
        /\ ReturnedFailure
        /\ outcome.value.f["error"].s = <<"Invalid date format. Please use YYYY-MM-DD.">>
        /\ searchCalls = 0
        /\ modelCalls = 0

\* C3: every call ends by returning a plan or a tagged {error: ...} result; no
\* exception escapes plan_full_trip_agent.
C3_NoExceptionEscapes ==
    pc = "done" => (outcome.kind = "return" /\ outcome.value.t = "obj")

\* the payload json.loads produced from the model's text
ModelAnswered == pc = "done" /\ http \in ParsedResponses
LacksItinerary(p) ==
    \/ p.t # "obj"
    \/ "itinerary" \notin DOMAIN p.f
    \/ p.f["itinerary"] = JList(<<>>)
GenerationMessages ==
    {"Failed to parse JSON response from AI.", "No content found in the AI response.",
     "Could not retrieve information from AI. Details: ",
     "An unexpected error occurred. Details: "}
Mentions(msg, words) ==
    \E i \in 1..Len(msg) :
        i + Len(words) - 1 <= Len(msg) /\ SubSeq(msg, i, i + Len(words) - 1) = words

\* C4: if the parsed response has no itinerary field or an empty itinerary, the call
\* returns a failure whose message names the requested destination and differs from
\* the failures of call_gemini_api; no plan is returned.
C4_MissingItineraryNamesDestination ==
    (ModelAnswered /\ LacksItinerary(full_trip_info)) =>
        /\ ReturnedFailure
        /\ Mentions(outcome.value.f["error"].s, req.destination.s)
        /\ outcome.value.f["error"].s[1] \notin GenerationMessages

WithoutKeys(o, K) == [k \in (DOMAIN o.f) \ K |-> o.f[k]]
\* a day without its number, its date and the links of its activities
Skeleton(day_plan) ==
    <<WithoutKeys(day_plan, {"day", "date", "activities"}),
      IF "activities" \in DOMAIN day_plan.f /\ day_plan.f["activities"].t = "list"
      THEN [i \in 1..Len(day_plan.f["activities"].xs) |->
              IF day_plan.f["activities"].xs[i].t = "obj"
              THEN JObj(WithoutKeys(day_plan.f["activities"].xs[i], {"map_link"}))
              ELSE day_plan.f["activities"].xs[i]]
      ELSE <<>>>>
KeptDays ==
    LET m == IF RequestedDays < Len(ModelItinerary) THEN RequestedDays ELSE Len(ModelItinerary)
    IN IF m < 0 THEN 0 ELSE m

\* C5: realignment truncates and never pads: the returned itinerary is the first
\* min(numDays, len(raw.itinerary)) entries of the model's itinerary, in their order,
\* entry i dated dateList[i] and numbered i+1 (link sanitization apart).
C5_TruncatesNeverPads ==
    ReturnedPlan =>
        /\ Len(FinalItinerary) = KeptDays
        /\ \A i \in 1..KeptDays :
             /\ Skeleton(FinalItinerary[i]) = Skeleton(ModelItinerary[i])
             /\ FinalItinerary[i].f["day"] = JNum(i)
             /\ FinalItinerary[i].f["date"] = RequestedDate(i)

\* a three-day itinerary cut to a two-day request, its first day renumbered and redated
C5_Witness ==
    /\ ReturnedPlan
    /\ RequestedDays = 2
    /\ Len(ModelItinerary) = 3
    /\ ModelItinerary[1] = DriftedDay
    /\ ModelItinerary[2] = FirstDayPlan
    /\ Len(FinalItinerary) = 2

\* the exchanges the generation step counts as failed
FailureCase(response_schema, h) ==
    \/ h \in TransportFailures
    \/ (response_schema /\ h \in UnparsableResponses)
    \/ h \in EmptyResponses

\* C6: call_gemini_api returns a tagged {error: diagnostic}, never a non-error value,
\* on a transport/HTTP failure, on text that is not JSON when a schema was supplied,
\* and on a response with empty or absent content.
C6_GenerationFailuresAreTagged ==
    (gem.phase = "returned" /\ FailureCase(gem.schema, gem.h)) => HasTaggedError(gem.result)

\* C7: the generative model is called at most once per invocation, and a failure of
\* call_gemini_api is returned to the caller unchanged, with no sanitization, gate
\* or realignment applied to it.
C7_SingleAttemptFailurePassedOn ==
    /\ modelCalls <= 1
    /\ pc = "generating" => modelCalls = 0
    /\ (pc = "done" /\ modelCalls = 1 /\ FailureCase(TRUE, http)) =>
          /\ outcome = Returned(full_trip_info)
          /\ HasTaggedError(full_trip_info)
          /\ full_trip_info.f["error"].s[1] \in GenerationMessages

\* the request timed out, and the caller has the diagnostic of call_gemini_api
C7_Witness ==
    /\ pc = "done"
    /\ modelCalls = 1
    /\ http = Exception("Timeout")
    /\ outcome = Returned(ErrorDict(<<"Could not retrieve information from AI. Details: ",
                                      "Timeout">>))

BadInput ==
    \/ IsAbsent(req.destination)
    \/ IsAbsent(req.from_date)
    \/ IsAbsent(req.to_date)
    \/ ~ParsesAsDate(req.from_date)
    \/ ~ParsesAsDate(req.to_date)

\* C8: when destination, from_date or to_date is missing or empty, or a date does not
\* parse as YYYY-MM-DD, the call returns an error and neither the similarity search nor
\* the model call happens in that invocation.
C8_BadInputRejectedBeforeIO ==
    (pc \in {"retrieving", "generating", "done"} /\ BadInput) =>
        /\ ReturnedFailure
        /\ searchCalls = 0
        /\ modelCalls = 0

\* 2025-02-30 has the layout of a date and names no day: rejected with no I/O
C8_Witness ==
    /\ pc = "done"
    /\ req.from_date = DateStr("%Y-%m-%d", 2025, 2, 30)
    /\ ~IsAbsent(req.destination)
    /\ ParsesAsDate(req.to_date)
    /\ ReturnedFailure
    /\ searchCalls = 0

RelevantResults == {i \in 1..Len(search_results) : search_results[i].score > RELEVANCE_THRESHOLD}

\* C9: exactly one prompt template is used per request, chosen by the retrieval
\* outcome alone: the context-augmented one iff retrieval gave non-empty context and at
\* least one source, which is iff some chunk scored above the threshold; the
\* general-knowledge one otherwise; the two are never blended.
C9_OneTemplateByRetrieval ==
    pc = "generating" =>
        /\ prompt.template \in {"rag", "general"}
        /\ (prompt.template = "rag") <=> (retrieved.context # <<>> /\ retrieved.sources # <<>>)
        /\ (prompt.template = "rag") <=> (RelevantResults # {})
        /\ (retrieved.context # <<>>) <=> (retrieved.sources # <<>>)
        /\ prompt.template = "rag" =>
              /\ prompt.context = JStr(retrieved.context)
              /\ prompt.sources_rule = "only the listed filenames"
              /\ prompt.destination = NotInPrompt
              /\ prompt.dates = NotInPrompt
              /\ prompt.preferences = NotInPrompt
        /\ prompt.template = "general" =>
              /\ prompt.context = NotInPrompt
              /\ prompt.source_filenames = NotInPrompt
              /\ prompt.sources_rule = "empty array"
              /\ prompt.destination = req.destination

\* one chunk above the threshold and one exactly on it: the context prompt, alone
C9_Witness ==
    /\ pc = "generating"
    /\ prompt.template = "rag"
    /\ Cardinality(RelevantResults) = 1
    /\ \E i \in 1..Len(search_results) : search_results[i].score = RELEVANCE_THRESHOLD

\* the date list as the general-knowledge prompt embeds it
ExpectedDates ==
    JStr(Join(", ", [i \in 1..(IF RequestedDays > 0 THEN RequestedDays ELSE 0) |->
                        RequestedDate(i).s]))
PastValidation == pc \in {"retrieving", "generating"} \/ (pc = "done" /\ modelCalls = 1)

\* C10: for a parsed date range numDays = (toDate - fromDate) in days + 1, and the date
\* list of the general-knowledge prompt has exactly numDays entries, entry i being
\* fromDate + i days: consecutive, first = fromDate, last = toDate.
C10_DateListCoversRange ==
    (PastValidation /\ BothParse) =>
        /\ num_days = RequestedDays
        /\ Len(date_list) = num_days
        /\ \A i \in 1..Len(date_list) : date_list[i] = RequestedDate(i)
        /\ Len(date_list) >= 1
        /\ date_list[1] = strftime([y |-> req.from_date.y, m |-> req.from_date.m,
                                    d |-> req.from_date.d])
        /\ date_list[Len(date_list)] = strftime([y |-> req.to_date.y, m |-> req.to_date.m,
                                                 d |-> req.to_date.d])
        /\ prompt.template = "general" => prompt.dates = ExpectedDates

\* the source filenames of the chunks that passed the relevance filter in this request
PassedSources == {search_results[i].doc.metadata["source"] : i \in RelevantResults}
\* the line of filenames the context prompt shows: names at odd places, ", " between
ListedLine == prompt.source_filenames.s
ListedFilenames == {ListedLine[i] : i \in {j \in 1..Len(ListedLine) : j % 2 = 1}}

\* C11: in the context-augmented branch the source list written into the prompt is
\* exactly the set of source filenames of the chunks that passed the relevance filter:
\* none added, none omitted, each written once, separated by ", ".
C11_PromptListsRetrievedSources ==
    (pc = "generating" /\ prompt.template = "rag") =>
        /\ ListedFilenames = PassedSources
        /\ Len(ListedLine) = 2 * Cardinality(PassedSources) - 1
        /\ \A i \in 1..Len(ListedLine) : (i % 2 = 0) <=> (ListedLine[i] = ", ")

\* three chunks of two files pass the filter: the prompt lists the two filenames
C11_Witness ==
    /\ pc = "generating"
    /\ prompt.template = "rag"
    /\ Cardinality(RelevantResults) = 3
    /\ PassedSources = {"kyoto.pdf", "food.txt"}
    /\ Len(ListedLine) = 3

\* the ranked results scoring strictly above 0.40, in the backend's order
Above(r) == r.score > 40
KeptResults == SelectSeq(search_results, Above)
\* the chunks' texts, each followed by the separator, one after the other
RECURSIVE ContextOf(_)
ContextOf(rs) ==
    IF rs = <<>> THEN <<>>
    ELSE rs[1].doc.page_content \o <<ContextSeparator>> \o ContextOf(Tail(rs))
Searched == pc = "generating" /\ vector_db # None

\* C12: get_context_with_sources keeps exactly the top-k (k = 3) results scoring
\* strictly above 0.40 (0.39 and 0.40 out, 0.41 in); the kept chunks appear in the
\* context in ranking order, their scores non-increasing, and at most k are kept.
C12_KeepsStrictlyAboveThresholdInOrder ==
    Searched =>
        /\ searchCalls = 1
        /\ Len(search_results) <= 3
        /\ retrieved.context = ContextOf(KeptResults)
        /\ \A i \in 1..Len(search_results) :
             /\ search_results[i].score \in {39, 40} =>
                   search_results[i] \notin Range(KeptResults)
             /\ search_results[i].score = 41 => search_results[i] \in Range(KeptResults)
        /\ \A i, j \in 1..Len(KeptResults) :
             i < j => KeptResults[i].score >= KeptResults[j].score
        /\ Len(KeptResults) <= 3

\* scores 0.41, 0.40, 0.39: only the first chunk is in the context
C12_Witness ==
    /\ Searched
    /\ Len(search_results) = 3
    /\ search_results[1].score = 41
    /\ search_results[2].score = 40
    /\ search_results[3].score = 39
    /\ retrieved.context = search_results[1].doc.page_content \o <<ContextSeparator>>

\* the indices of the ranked results that come from one file
ChunksOf(filename) ==
    {i \in 1..Len(search_results) : search_results[i].doc.metadata["source"] = filename}

\* C13: the source list get_context_with_sources returns holds each filename at most
\* once: a source with several chunks above the threshold is reported once, a source
\* none of whose chunks passed is not reported.
C13_SourcesReportedOnce ==
    Searched =>
        /\ \A i, j \in 1..Len(retrieved.sources) :
             retrieved.sources[i] = retrieved.sources[j] => i = j
        /\ \A filename \in {"kyoto.pdf", "food.txt"} :
             (filename \in Range(retrieved.sources))
                <=> (ChunksOf(filename) \cap RelevantResults # {})

\* both chunks of kyoto.pdf pass, the chunk of food.txt does not: kyoto.pdf, once
C13_Witness ==
    /\ Searched
    /\ Cardinality(ChunksOf("kyoto.pdf") \cap RelevantResults) = 2
    /\ ChunksOf("food.txt") # {}
    /\ ChunksOf("food.txt") \cap RelevantResults = {}
    /\ retrieved.sources = <<"kyoto.pdf">>

\* validation let the request through with no index loaded
DegradedRequest == vector_db = None /\ ~BadInput /\ pc \in {"generating", "done"}

\* C14: when the index is unavailable (vector_db is None) get_context_with_sources
\* returns empty context and no sources without searching, and the request goes on
\* through the general-knowledge prompt to the model call instead of ending in an error.
C14_MissingIndexFallsBackToGeneral ==
    DegradedRequest =>
        /\ searchCalls = 0
        /\ retrieved.context = <<>>
        /\ retrieved.sources = <<>>
        /\ prompt.template = "general"
        /\ prompt.destination = req.destination
        /\ pc = "generating" => outcome = NoOutcome
        /\ pc = "done" => modelCalls = 1

\* no index, and the model was called with the general-knowledge prompt and gave a plan
C14_Witness ==
    /\ DegradedRequest
    /\ pc = "done"
    /\ modelCalls = 1
    /\ searchCalls = 0
    /\ prompt.template = "general"
    /\ ReturnedPlan

\* v[i..k] is a markdown wrapper [label](http(s)://URL): "[" at i, "](" at j, ")" at k
WrapperAt(v, i, j, k) ==
    /\ i < j /\ j + 2 < k /\ k <= Len(v)
    /\ v[i] = "[" /\ v[j] = "]" /\ v[j + 1] = "("
    /\ v[j + 2] \in {"http://", "https://"}
    /\ v[k] = ")"
    /\ \A x \in (i + 1)..(k - 1) : v[x] # "\n"
HasWrapper(v) == \E i, j, k \in 1..Len(v) : WrapperAt(v, i, j, k)
\* out is what sanitization owes for the value raw
SanitizedTo(raw, out) ==
    IF HasWrapper(raw)
    THEN /\ \E i, j, k \in 1..Len(raw) : WrapperAt(raw, i, j, k) /\ out = SubSeq(raw, j + 2, k - 1)
         /\ out[1] \in {"http://", "https://"}
         /\ \A x \in 1..Len(out) : out[x] \notin {"[", "]", "(", ")"}
    ELSE out = raw
HasLink(item) == item.t = "obj" /\ "map_link" \in DOMAIN item.f
ListAt(o, key) ==
    IF o.t = "obj" /\ key \in DOMAIN o.f /\ o.f[key].t = "list" THEN o.f[key].xs ELSE <<>>
\* every link of the list raw is sanitized in the list final, at the same place
LinksSanitized(raw, final) ==
    \A i \in 1..Len(final) :
        HasLink(raw[i]) =>
            /\ HasLink(final[i])
            /\ SanitizedTo(raw[i].f["map_link"].s, final[i].f["map_link"].s)

BuildStep == buildCalls' = buildCalls + 1

\* C16: the build is idempotent: when a persisted index exists at the store path,
\* create_vector_store_from_folder loads and returns it without loading documents,
\* embedding chunks or rewriting the store; after one successful build the embedding
\* is never computed again and the store stays as it is.
C16_BuildIsIdempotent ==
    [][(BuildStep /\ store.t = "faiss") =>
          /\ built' = Returned(store)
          /\ store' = store
          /\ embedCalls' = embedCalls
          /\ loadCalls' = loadCalls]_vars

\* built from the folder once, then called twice more: one embedding, the same index
C16_Witness ==
    /\ buildCalls = 3
    /\ embedCalls = 1
    /\ loadCalls = 1
    /\ store = LoadedIndex
    /\ built = Returned(LoadedIndex)
    /\ folder.t = "dir"

\* the names with a supported extension, letter case apart
SupportedNames == {"kyoto.pdf", "maps.pdf", "GUIDE.PDF", "food.txt", "old.txt", "notes.docx"}
\* the records one entry owes: its pages, each carrying the entry's filename
RecordsOf(entry) ==
    IF entry.filename \in SupportedNames /\ entry.holds.t = "pages"
    THEN [j \in 1..Len(entry.holds.texts) |->
            [page_content |-> entry.holds.texts[j], metadata |-> [source |-> entry.filename]]]
    ELSE <<>>
RECURSIVE ExpectedRecords(_)
ExpectedRecords(listing) ==
    IF listing = <<>> THEN <<>>
    ELSE RecordsOf(Head(listing)) \o ExpectedRecords(Tail(listing))
\* the load of the folder came back with no document
NothingToIndex == load_documents_from_folder(folder) = Ok(<<>>)

ImportStep == startup = NoOutcome /\ startup' # NoOutcome

\* C18: loading the persisted index tells absence from corruption: an absent store is
\* "not yet built" and not fatal, a store that exists but does not deserialize is a
\* fatal load error, in the build and at the start of the agent alike.
C18_AbsenceDistinctFromCorruption ==
    [][/\ (BuildStep /\ store = Absent) => built' # Raised("RuntimeError")
       /\ (BuildStep /\ store = Corrupt) => built' = Raised("RuntimeError")
       /\ (ImportStep /\ store = Absent) => (startup'.kind = "return" /\ vector_db' = None)
       /\ (ImportStep /\ store = Corrupt) => startup'.kind = "raise"]_vars

\* C19: load_documents_from_folder never aborts a batch because of one entry: a failure
\* on one entry (loader construction or extraction) leaves the records of all other
\* supported entries, unsupported entries are skipped, every record carries its
\* filename as source, and a folder that does not exist gives the empty sequence.
C19_OneEntryNeverAbortsBatch ==
    documents # NoOutcome =>
        /\ documents.kind = "return"
        /\ folder.t = "absent" => documents.value = <<>>
        /\ folder.t = "dir" => documents.value = ExpectedRecords(folder.listing)

\* C20: the /plan-full-trip route returns {data: plan} when the agent succeeds, and
\* when the agent returns {error: msg} the caller gets a failure response whose detail
\* is msg verbatim, not wrapped or rewritten by the route's own exception handling.
C20_RouteSurfacesAgentErrorVerbatim ==
    (pc = "responded" /\ outcome.kind = "return") =>
        IF HasTaggedError(outcome.value)
        THEN /\ response.kind = "http_error"
             /\ response.detail = outcome.value.f["error"]
        ELSE response = [kind |-> "response", body |-> JObj([data |-> outcome.value])]

\* an entry without its link
Unlinked(item) == IF item.t = "obj" THEN JObj(WithoutKeys(item, {"map_link"})) ELSE item
\* final holds the entries of raw in their order, the values of map_link apart
SameEntries(raw, final) ==
    IF raw.t = "list"
    THEN /\ final.t = "list"
         /\ Len(final.xs) = Len(raw.xs)
         /\ \A i \in 1..Len(raw.xs) :
              /\ Unlinked(final.xs[i]) = Unlinked(raw.xs[i])
              /\ HasLink(final.xs[i]) <=> HasLink(raw.xs[i])
    ELSE final = raw
\* the activities of a day, when it has any
ActivitiesOf(day_plan) ==
    IF "activities" \in DOMAIN day_plan.f THEN day_plan.f["activities"] ELSE JNull
\* the model answered with a dict that lacks hotels or restaurants and holds an
\* itinerary of at least one day, every day a dict
LacksSectionOnly ==
    /\ ModelAnswered
    /\ full_trip_info.t = "obj"
    /\ "error" \notin DOMAIN full_trip_info.f
    /\ \E section \in {"hotels", "restaurants"} : section \notin DOMAIN full_trip_info.f
    /\ "itinerary" \in DOMAIN full_trip_info.f
    /\ full_trip_info.f["itinerary"].t = "list"
    /\ full_trip_info.f["itinerary"].xs # <<>>
    /\ \A i \in 1..Len(full_trip_info.f["itinerary"].xs) :
         full_trip_info.f["itinerary"].xs[i] \in {DriftedDay, FirstDayPlan}

SentDates == req.from_date
\* the model answered with a plan of the schema's shape, its itinerary not empty
ValidPlanAnswer ==
    /\ http \in ParsedResponses
    /\ full_trip_info \in ShapedPlans
    /\ full_trip_info.f["itinerary"].xs # <<>>

\* C24: a request to /api/plan-full-trip with a non-empty destination and dates
\* reaches the model call, and when the model returns a valid plan with a non-empty
\* itinerary the endpoint responds with {data: plan}: the arguments the endpoint
\* passes to plan_full_trip_agent are accepted by its input validation.
C24_MainEndpointReachesModel ==
    (pc = "responded" /\ Truthy(req.destination) /\ Truthy(SentDates)) =>
        /\ modelCalls = 1
        /\ ValidPlanAnswer =>
              /\ response.kind = "response"
              /\ response.body = JObj([data |-> outcome.value])

\* what call t returns when it runs alone on the index idx: a function of its own
\* request, the backend's answer to its own query and the model's answer to its own prompt
OwnOutcome(k, idx) ==
    LET v == Validate(k.req.destination, k.req.from_date, k.req.to_date) IN
    IF v.kind # "continue" THEN v
    ELSE LET r == IF Truthy(idx) THEN get_context_with_sources(k.search_results)
                  ELSE IndexUnavailable IN
         IF ~r.ok THEN Raised(r.exc)
         ELSE Reconcile(call_gemini_api(TRUE, k.http), k.req.destination,
                        v.num_days, v.date_list)
\* the prompt call t sends is made of its own request and its own retrieval
OwnPrompt(k, idx) ==
    LET v == Validate(k.req.destination, k.req.from_date, k.req.to_date)
        r == IF Truthy(idx) THEN get_context_with_sources(k.search_results)
             ELSE IndexUnavailable
    IN /\ k.retrieved.context = r.v.context
       /\ Range(k.retrieved.sources) = r.v.sources
       /\ k.search_results \in (IF Truthy(idx) THEN SearchOutcomes(idx) ELSE {<<>>})
       /\ k.prompt = ComposePrompt(k.req.destination, k.req.preferences, v.date_list,
                                   r.v.context, k.retrieved.sources)
\* the index the module loaded when it was imported
ImportedIndex == startup.value

C22_SlowCallBlocksNoOtherRequest ==
    \A t, u \in Tasks :
        (tasks[t].pc = "generating" /\ tasks[u].pc = "arrived") => ENABLED Dispatch(u)

====
